---- MODULE Spec2Model ----
(***************************************************************************)
(* Model of nutritionapp/app.py: the nutrition formulas (calculate_bmr,    *)
(* get_tdee, get_macros, calculate_water_intake, calculate_bmi), the       *)
(* exercise estimator of tab 3, and the Streamlit session state that       *)
(* run_calculation and update_macro_and_recalculate write.                 *)
(*                                                                         *)
(* Numbers.  The formulas are evaluated over exact decimals held as        *)
(* integers in fixed units:                                                *)
(*   weight_kg, height_cm     tenths (70.0 kg is 700, 170.0 cm is 1700)    *)
(*   bmr                      eighths of a kcal (6.25 * 0.1 cm = 5/8)      *)
(*   activity multiplier      fortieths (1.375 is 55)                      *)
(*   tdee                     1/320 kcal                                   *)
(*   macro ratio              hundredths (0.40 is 40)                      *)
(*   every round(v, 1) result tenths                                       *)
(* round(v, 1) acts on a binary64 v: away from an exact decimal tie the    *)
(* binary rounding error cannot change the result, at a tie it decides it, *)
(* so at a tie both neighbouring tenths are admitted (round1 is a set).    *)
(* math.floor in the exercise estimator sees the binary64 product itself,  *)
(* so that product is evaluated in binary64 (Float, FMul, FFloor below).   *)
(***************************************************************************)
EXTENDS Integers, Sequences, FiniteSets, TLC

VARIABLES
    \* sidebar widgets, by their session-state keys
    weight_kg_sidebar, height_cm_sidebar, age_sidebar, sex_sidebar,
    activity_sidebar,
    macro_ratio,            \* key of the sidebar preset selectbox, line 166/269
    macro_ratio_dashboard,  \* key of the dashboard preset selectbox, line 307
    \* st.session_state written by the callbacks
    calculated, results, weight_kg,
    event,                  \* the user event handled last
    raised,                 \* the exception the last callback propagated
    \* a direct call of one formula: the call and its outcome
    call, ret

widgets == <<weight_kg_sidebar, height_cm_sidebar, age_sidebar, sex_sidebar,
             activity_sidebar>>
session == <<macro_ratio, macro_ratio_dashboard, calculated, results,
             weight_kg, event, raised>>
vars == <<widgets, session, call, ret>>

-----------------------------------------------------------------------------
(* Outcomes of a call: a returned value or a propagated exception.         *)

Return(v) == [val |-> v]
Raise(e) == [exc |-> e]
Returned(r) == "val" \in DOMAIN r
Raised(r) == "exc" \in DOMAIN r

-----------------------------------------------------------------------------
(* Tables                                                                  *)

\* a table whose "Lower Carb" row is mistyped as 35/30/30
MACRO_PRESETS_mistyped ==
    [p \in {"Balanced (40/30/30)", "High Protein (30/40/30)",
            "Lower Carb (35/30/35)", "High Carb / Low Fat (50/30/20)"} |->
        CASE p = "Balanced (40/30/30)" -> <<40, 30, 30>>
          [] p = "High Protein (30/40/30)" -> <<30, 40, 30>>
          [] p = "Lower Carb (35/30/35)" -> <<35, 30, 30>>
          [] p = "High Carb / Low Fat (50/30/20)" -> <<50, 30, 20>>]

\* MACRO_PRESETS, lines 19-24: (carbs, protein, fat) in hundredths
MACRO_PRESETS ==
    [p \in {"Balanced (40/30/30)", "High Protein (30/40/30)",
            "Lower Carb (35/30/35)", "High Carb / Low Fat (50/30/20)"} |->
        CASE p = "Balanced (40/30/30)" -> <<40, 30, 30>>
          [] p = "High Protein (30/40/30)" -> <<30, 40, 30>>
          [] p = "Lower Carb (35/30/35)" -> <<35, 30, 35>>
          [] p = "High Carb / Low Fat (50/30/20)" -> <<50, 30, 20>>]

\* MET in tenths
MET_VALUES ==
    [a \in {"Select an activity...", "Running (Slow, 10 min/mile)",
            "Running (Fast, 7 min/mile)", "Cycling (Moderate, 12-14 mph)",
            "Weightlifting (Vigorous)", "Walking (Brisk, 3.5 mph)", "Yoga",
            "Swimming (Moderate)"} |->
        CASE a = "Select an activity..." -> 0
          [] a = "Running (Slow, 10 min/mile)" -> 98
          [] a = "Running (Fast, 7 min/mile)" -> 128
          [] a = "Cycling (Moderate, 12-14 mph)" -> 80
          [] a = "Weightlifting (Vigorous)" -> 60
          [] a = "Walking (Brisk, 3.5 mph)" -> 38
          [] a = "Yoga" -> 25
          [] a = "Swimming (Moderate)" -> 70]

\* a table whose second multiplier is mistyped as 1.735
activity_multipliers_mistyped ==
    [l \in {"Sedentary (little or no exercise)",
            "Lightly Active (light exercise/sports 1-3 days/week)",
            "Moderately Active (moderate exercise/sports 3-5 days/week)",
            "Very Active (hard exercise/sports 6-7 days a week)",
            "Extra Active (very hard exercise/sports & physical job)"} |->
        CASE l = "Sedentary (little or no exercise)" -> 48
          [] l = "Lightly Active (light exercise/sports 1-3 days/week)" -> 69
          [] l = "Moderately Active (moderate exercise/sports 3-5 days/week)" -> 62
          [] l = "Very Active (hard exercise/sports 6-7 days a week)" -> 69
          [] l = "Extra Active (very hard exercise/sports & physical job)" -> 76]

\* activity_multipliers, lines 100-106, in fortieths: 1.2, 1.375, 1.55,
\* 1.725, 1.9
activity_multipliers ==
    [l \in {"Sedentary (little or no exercise)",
            "Lightly Active (light exercise/sports 1-3 days/week)",
            "Moderately Active (moderate exercise/sports 3-5 days/week)",
            "Very Active (hard exercise/sports 6-7 days a week)",
            "Extra Active (very hard exercise/sports & physical job)"} |->
        CASE l = "Sedentary (little or no exercise)" -> 48
          [] l = "Lightly Active (light exercise/sports 1-3 days/week)" -> 55
          [] l = "Moderately Active (moderate exercise/sports 3-5 days/week)" -> 62
          [] l = "Very Active (hard exercise/sports 6-7 days a week)" -> 69
          [] l = "Extra Active (very hard exercise/sports & physical job)" -> 76]

\* the five levels in the order of the table
LevelOrder ==
    << "Sedentary (little or no exercise)",
       "Lightly Active (light exercise/sports 1-3 days/week)",
       "Moderately Active (moderate exercise/sports 3-5 days/week)",
       "Very Active (hard exercise/sports 6-7 days a week)",
       "Extra Active (very hard exercise/sports & physical job)" >>

\* the floor of the calorie target, kcal
MinCalories == 1200

-----------------------------------------------------------------------------
(* round(v, 1) of the exact value n/d (d > 0), in tenths: the tenths       *)
(* within 0.05 of n/d.  One tenth, or the two neighbours of an exact tie.  *)

round1(n, d) ==
    LET q == (10 * n) \div d
        r == (10 * n) - q * d
    IN  IF 2 * r < d THEN {q}
        ELSE IF 2 * r > d THEN {q + 1}
        ELSE {q, q + 1}

-----------------------------------------------------------------------------
(* Helper functions, lines 89-158                                          *)

\* a calculate_bmr whose Female constant is 151 instead of 161
calculate_bmr_female_151(weight_kg_, height_cm_, age_, sex_) ==
    IF sex_ = "Male"
    THEN 8 * weight_kg_ + 5 * height_cm_ - 40 * age_ + 8 * 5
    ELSE 8 * weight_kg_ + 5 * height_cm_ - 40 * age_ - 8 * 151

\* calculate_bmr, lines 89-95: bmr in eighths of a kcal
calculate_bmr(weight_kg_, height_cm_, age_, sex_) ==
    IF sex_ = "Male"
    THEN 8 * weight_kg_ + 5 * height_cm_ - 40 * age_ + 8 * 5
    ELSE 8 * weight_kg_ + 5 * height_cm_ - 40 * age_ - 8 * 161

\* a get_tdee that looked the level up with .get(level, 1.2)
get_tdee_defaulting(bmr_, activity_level_) ==
    IF activity_level_ \in DOMAIN activity_multipliers
    THEN Return(bmr_ * activity_multipliers[activity_level_])
    ELSE Return(bmr_ * 48)

\* bmr in eighths, tdee in 1/320 kcal; an unknown level is a KeyError
get_tdee(bmr_, activity_level_) ==
    IF activity_level_ \in DOMAIN activity_multipliers
    THEN Return(bmr_ * activity_multipliers[activity_level_])
    ELSE Raise("KeyError")

\* lines 119-137 for a given target_calories (1/320 kcal): the dict of line
\* 131, each value round(v, 1); an unknown preset is a KeyError
split_macros(target_calories, macro_ratio_preset_) ==
    IF macro_ratio_preset_ \notin DOMAIN MACRO_PRESETS
    THEN {Raise("KeyError")}
    ELSE
      LET c_ratio == MACRO_PRESETS[macro_ratio_preset_][1]
          p_ratio == MACRO_PRESETS[macro_ratio_preset_][2]
          f_ratio == MACRO_PRESETS[macro_ratio_preset_][3]
          \* in 1/32000 kcal
          protein_cal == target_calories * p_ratio
          carb_cal == target_calories * c_ratio
          fat_cal == target_calories * f_ratio
      IN  { Return([calories |-> cal,
                    protein_g |-> pg, protein_cal |-> pc,
                    fat_g |-> fg, fat_cal |-> fc,
                    carbs_g |-> cg, carbs_cal |-> cc]) :
              cal \in round1(target_calories, 320),
              pg \in round1(protein_cal, 4 * 32000),
              pc \in round1(protein_cal, 32000),
              fg \in round1(fat_cal, 9 * 32000),
              fc \in round1(fat_cal, 32000),
              cg \in round1(carb_cal, 4 * 32000),
              cc \in round1(carb_cal, 32000) }

\* get_macros without the floor of lines 116-117
get_macros_unfloored(tdee_, macro_ratio_preset_) ==
    split_macros(tdee_, macro_ratio_preset_)

\* get_macros, lines 110-137; tdee in 1/320 kcal
get_macros(tdee_, macro_ratio_preset_) ==
    LET target_calories == IF tdee_ < MinCalories * 320
                           THEN MinCalories * 320 ELSE tdee_
    IN  split_macros(target_calories, macro_ratio_preset_)

\* litres in tenths: round(weight_kg * 35 / 1000, 1)
calculate_water_intake(weight_kg_) == round1(weight_kg_ * 35, 10000)

\* bmi thresholds act on the rounded bmi (tenths)
bmi_category(bmi) ==
    IF bmi < 185 THEN "Underweight"
    ELSE IF 185 <= bmi /\ bmi < 250 THEN "Healthy Weight"
    ELSE IF 250 <= bmi /\ bmi < 300 THEN "Overweight"
    ELSE "Obese"

\* a calculate_bmi that rounded only the returned bmi and chose the
\* category on the unrounded quotient
calculate_bmi_unrounded_category(weight_kg_, height_cm_) ==
    IF height_cm_ <= 0 THEN {<<0, "N/A">>}
    ELSE LET n == weight_kg_ * 1000000
             d == height_cm_ * height_cm_
         IN  { <<bmi, IF n < 185 * d THEN "Underweight"
                      ELSE IF n < 250 * d THEN "Healthy Weight"
                      ELSE IF n < 300 * d THEN "Overweight"
                      ELSE "Obese">> :
                 bmi \in round1(weight_kg_ * 100000, d) }

\* calculate_bmi, lines 145-158: (bmi, category);
\* weight / (height/100)^2 = weight_10 * 10^5 / height_10^2
calculate_bmi(weight_kg_, height_cm_) ==
    IF height_cm_ <= 0 THEN {<<0, "N/A">>}
    ELSE { <<bmi, bmi_category(bmi)>> :
             bmi \in round1(weight_kg_ * 100000, height_cm_ * height_cm_) }

-----------------------------------------------------------------------------
(* binary64 arithmetic for the exercise estimator.  A positive double is   *)
(* m * 2^e with 2^52 <= m < 2^53; m is held as limbs of 14 bits,           *)
(* m = N[0] + N[1]*2^14 + ...  Every operation is the exact result rounded *)
(* to 53 bits, ties to even, as IEEE 754 prescribes for / and *.           *)

Limb == 2^14

\* the eight limbs f(0), ..., f(7) as a tuple: limb i is N[i + 1]
Limbs(f(_)) == <<f(0), f(1), f(2), f(3), f(4), f(5), f(6), f(7)>>

LimbAt(N, i) == IF i < 8 THEN N[i + 1] ELSE 0

\* bit j of N
Bit(N, j) == (LimbAt(N, j \div 14) \div 2^(j % 14)) % 2

\* no bit below bit j is set
LowZero(N, j) ==
    /\ \A i \in 0..7 : i < j \div 14 => LimbAt(N, i) = 0
    /\ LimbAt(N, j \div 14) % 2^(j % 14) = 0

\* number of significant bits of N > 0
BitLen(N) ==
    LET h == CHOOSE i \in 0..7 :
                 LimbAt(N, i) # 0 /\ \A k \in 0..7 : k > i => LimbAt(N, k) = 0
        b == CHOOSE k \in 1..14 :
                 2^(k - 1) <= LimbAt(N, h) /\ LimbAt(N, h) < 2^k
    IN  14 * h + b

\* floor(N / 2^s)
Shr(N, s) ==
    LET limb(i) ==
            (LimbAt(N, i + (s \div 14)) \div 2^(s % 14))
            + (LimbAt(N, i + (s \div 14) + 1) % 2^(s % 14)) * 2^(14 - (s % 14))
    IN  Limbs(limb)

\* N + 1
Inc(N) ==
    LET limb(i) == IF \A j \in 0..7 : j < i => LimbAt(N, j) = Limb - 1
                   THEN (LimbAt(N, i) + 1) % Limb ELSE LimbAt(N, i)
    IN  Limbs(limb)

\* N * 2^x (N >= 2^52; sticky: a nonzero part below N was cut) rounded to a double
Round53(N, sticky, x) ==
    LET s == BitLen(N) - 53
        q == Shr(N, s)
        up == /\ s > 0
              /\ Bit(N, s - 1) = 1
              /\ sticky \/ ~LowZero(N, s - 1) \/ LimbAt(q, 0) % 2 = 1
        m == IF up THEN Inc(q) ELSE q
    IN  IF BitLen(m) = 54 THEN [m |-> Shr(m, 1), e |-> x + s + 1]
        ELSE [m |-> m, e |-> x + s]

\* the product of two 53-bit mantissas (four limbs each)
MulLimbs(a, b) ==
    LET col(k) == CASE k = 0 -> a[1] * b[1]
                    [] k = 1 -> a[1] * b[2] + a[2] * b[1]
                    [] k = 2 -> a[1] * b[3] + a[2] * b[2] + a[3] * b[1]
                    [] k = 3 -> a[1] * b[4] + a[2] * b[3] + a[3] * b[2]
                                + a[4] * b[1]
                    [] k = 4 -> a[2] * b[4] + a[3] * b[3] + a[4] * b[2]
                    [] k = 5 -> a[3] * b[4] + a[4] * b[3]
                    [] k = 6 -> a[4] * b[4]
                    [] OTHER -> 0
        c0 == col(0)
        c1 == col(1) + (c0 \div Limb)
        c2 == col(2) + (c1 \div Limb)
        c3 == col(3) + (c2 \div Limb)
        c4 == col(4) + (c3 \div Limb)
        c5 == col(5) + (c4 \div Limb)
        c6 == col(6) + (c5 \div Limb)
        c7 == c6 \div Limb
    IN  <<c0 % Limb, c1 % Limb, c2 % Limb, c3 % Limb, c4 % Limb, c5 % Limb,
          c6 % Limb, c7>>

\* the double nearest to p / q: a decimal literal or widget value (q = 10),
\* or the quotient of two exactly representable numbers (duration / 60.0)
Float(p, q) ==
    LET r0 == p % q
        r1 == (r0 * Limb) % q
        r2 == (r1 * Limb) % q
        r3 == (r2 * Limb) % q
        r4 == (r3 * Limb) % q
        r5 == (r4 * Limb) % q
        N == <<(r4 * Limb) \div q, (r3 * Limb) \div q, (r2 * Limb) \div q,
               (r1 * Limb) \div q, (r0 * Limb) \div q,
               (p \div q) % Limb, (p \div q) \div Limb, 0>>
    IN  Round53(N, r5 # 0, -70)

\* x * y
FMul(x, y) == Round53(MulLimbs(x.m, y.m), FALSE, x.e + y.e)

\* math.floor(x), for x < 2^31
FFloor(x) ==
    LET N == IF x.e < 0 THEN Shr(x.m, -x.e) ELSE x.m
    IN  N[1] + N[2] * Limb + N[3] * Limb * Limb

-----------------------------------------------------------------------------
(* Tab 3, lines 486-521: the exercise calorie estimator.  weight in        *)
(* tenths of a kg, duration in minutes.                                    *)

exercise_estimator(activity, current_weight_kg, duration) ==
    IF activity # "Select an activity..."
    THEN LET met == MET_VALUES[activity]
             duration_hours == Float(duration, 60)
         IN  [calories_burned |->
                 IF met = 0 THEN 0
                 ELSE FFloor(FMul(FMul(Float(met, 10),
                                       Float(current_weight_kg, 10)),
                                  duration_hours))]
    ELSE [info |-> "Select an activity to calculate estimated calories burned."]

-----------------------------------------------------------------------------
(* Session state, lines 161-210                                            *)

\* st.session_state.results = {} of line 164
NoResults == <<>>

\* the key of a widget that the last script run did not render
Unset == "unset"

\* the condition of line 181 on the widgets' values
InvalidNow ==
    weight_kg_sidebar <= 0 \/ height_cm_sidebar <= 0 \/ age_sidebar <= 0

\* the dicts run_calculation can store for these inputs (one, or one per
\* side of an exact rounding tie)
Bundles(w, h, a, s, l, ratio) ==
    LET bmr == calculate_bmr(w, h, a, s)
        tdee == get_tdee(bmr, l)
    IN  IF Raised(tdee) THEN {}
        ELSE { [bmr |-> bmr, tdee |-> tdee.val, macros |-> macros.val,
                water_liters |-> water_liters,
                bmi |-> b[1], bmi_category |-> b[2],
                weight_kg |-> w, macro_ratio |-> ratio] :
                 macros \in {m \in get_macros(tdee.val, ratio) : Returned(m)},
                 water_liters \in calculate_water_intake(w),
                 b \in calculate_bmi(w, h) }

\* the first exception raised on the way, if any
BundleError(w, h, a, s, l, ratio) ==
    LET tdee == get_tdee(calculate_bmr(w, h, a, s), l)
    IN  IF Raised(tdee) THEN tdee.exc
        ELSE IF \E m \in get_macros(tdee.val, ratio) : Raised(m) THEN "KeyError"
        ELSE "None"

\* lines 186-199: the results computed from the inputs read at lines 172-179
\* are stored
StoresBundle ==
    /\ calculated' = TRUE
    /\ results' \in Bundles(weight_kg_sidebar, height_cm_sidebar, age_sidebar,
                            sex_sidebar, activity_sidebar, macro_ratio')
    /\ weight_kg' = weight_kg_sidebar
    /\ raised' = "None"

\* a run_calculation whose validation raised instead of returning
run_calculation_raising ==
    IF weight_kg_sidebar <= 0 \/ height_cm_sidebar <= 0 \/ age_sidebar <= 0
    THEN /\ raised' = "InvalidInput"
         /\ UNCHANGED <<calculated, results, weight_kg>>
    ELSE StoresBundle

\* a run_calculation that cleared the stored results on invalid input
run_calculation_clearing ==
    IF weight_kg_sidebar <= 0 \/ height_cm_sidebar <= 0 \/ age_sidebar <= 0
    THEN /\ calculated' = FALSE
         /\ results' = NoResults
         /\ raised' = "None"
         /\ UNCHANGED weight_kg
    ELSE StoresBundle

\* a run_calculation that computed with the preset of the stored results
\* instead of st.session_state.macro_ratio
run_calculation_stale_preset ==
    IF weight_kg_sidebar <= 0 \/ height_cm_sidebar <= 0 \/ age_sidebar <= 0
    THEN /\ calculated' = FALSE
         /\ raised' = "None"
         /\ UNCHANGED <<results, weight_kg>>
    ELSE /\ calculated' = TRUE
         /\ results' \in Bundles(weight_kg_sidebar, height_cm_sidebar,
                                 age_sidebar, sex_sidebar, activity_sidebar,
                                 IF results = NoResults THEN macro_ratio'
                                 ELSE results.macro_ratio)
         /\ weight_kg' = weight_kg_sidebar
         /\ raised' = "None"

\* a run_calculation without the validation of lines 181-184
run_calculation_unvalidated ==
    StoresBundle

\* run_calculation, lines 169-199; macro_ratio' is st.session_state.macro_ratio
\* as the function reads it (line 179)
run_calculation ==
    IF weight_kg_sidebar <= 0 \/ height_cm_sidebar <= 0 \/ age_sidebar <= 0
    THEN /\ calculated' = FALSE
         /\ raised' = "None"
         /\ UNCHANGED <<results, weight_kg>>
    ELSE LET err == BundleError(weight_kg_sidebar, height_cm_sidebar,
                                age_sidebar, sex_sidebar, activity_sidebar,
                                macro_ratio')
         IN  IF err # "None"
             THEN /\ raised' = err
                  /\ UNCHANGED <<calculated, results, weight_kg>>
             ELSE StoresBundle

\* The script run that follows every event: tab 1 renders the dashboard
\* selectbox only while calculated (lines 282-310).  A widget that is not
\* rendered loses its key; one rendered for the first time takes its index
\* (the position of macro_ratio); one rendered again keeps its value, or,
\* when its index changed and the Streamlit at hand makes the index part of
\* the widget's identity, takes the new index.
Rerun(dashboard) ==
    IF ~calculated' THEN macro_ratio_dashboard' = Unset
    ELSE IF dashboard = Unset THEN macro_ratio_dashboard' = macro_ratio'
    ELSE IF macro_ratio' = macro_ratio THEN macro_ratio_dashboard' = dashboard
    ELSE macro_ratio_dashboard' \in {dashboard, macro_ratio'}

-----------------------------------------------------------------------------
(* The inputs the model draws from                                         *)

\* widget defaults, lines 230, 231, 248 (tenths of kg and cm, years)
DefaultWeight == 700
DefaultHeight == 1700
DefaultAge == 25

\* the options of the two preset selectboxes, in the order of the table
PresetOrder ==
    << "Balanced (40/30/30)", "High Protein (30/40/30)",
       "Lower Carb (35/30/35)", "High Carb / Low Fat (50/30/20)" >>

\* how many of the activity levels and presets the session's user picks from
NumLevels == 2
NumPresets == 3

\* the values the session's user enters.  height_cm_sidebar is 0 when the
\* Imperial inputs are 0 ft 0 in (lines 237-246); the Metric inputs and the
\* age input have min_value 1.
SessWeights == {DefaultWeight, 855}
SessHeights == {0, DefaultHeight}
SessAges == {DefaultAge, 40}
SessSexes == {"Male", "Female"}
SessLevels == {LevelOrder[i] : i \in 1..NumLevels}
SessPresets == {PresetOrder[i] : i \in 1..NumPresets}

NoCall == [fn |-> "none", args |-> <<>>]

Init ==
    /\ weight_kg_sidebar = DefaultWeight
    /\ height_cm_sidebar = DefaultHeight
    /\ age_sidebar = DefaultAge
    /\ sex_sidebar = "Male"
    /\ activity_sidebar = LevelOrder[1]
    /\ calculated = FALSE
    /\ results = NoResults
    /\ weight_kg = 700                  \* line 165
    /\ macro_ratio = "Balanced (40/30/30)"
    /\ macro_ratio_dashboard = Unset
    /\ event = "load"
    /\ raised = "None"
    /\ call = NoCall
    /\ ret = Return(0)

-----------------------------------------------------------------------------
(* The session: one action per user event, each with the callback it       *)
(* triggers and the script run that follows.                               *)

\* an edit of a sidebar widget: no callback, the script runs again
InputEvent ==
    /\ event' = "input"
    /\ raised' = "None"
    /\ UNCHANGED <<calculated, results, weight_kg, call, ret>>
    /\ Rerun(macro_ratio_dashboard)

ChangeWeight(w) ==
    /\ w # weight_kg_sidebar
    /\ weight_kg_sidebar' = w
    /\ UNCHANGED <<height_cm_sidebar, age_sidebar, sex_sidebar,
                   activity_sidebar, macro_ratio>>
    /\ InputEvent

ChangeHeight(h) ==
    /\ h # height_cm_sidebar
    /\ height_cm_sidebar' = h
    /\ UNCHANGED <<weight_kg_sidebar, age_sidebar, sex_sidebar,
                   activity_sidebar, macro_ratio>>
    /\ InputEvent

ChangeAge(a) ==
    /\ a # age_sidebar
    /\ age_sidebar' = a
    /\ UNCHANGED <<weight_kg_sidebar, height_cm_sidebar, sex_sidebar,
                   activity_sidebar, macro_ratio>>
    /\ InputEvent

ChangeSex(s) ==
    /\ s # sex_sidebar
    /\ sex_sidebar' = s
    /\ UNCHANGED <<weight_kg_sidebar, height_cm_sidebar, age_sidebar,
                   activity_sidebar, macro_ratio>>
    /\ InputEvent

ChangeActivity(l) ==
    /\ l # activity_sidebar
    /\ activity_sidebar' = l
    /\ UNCHANGED <<weight_kg_sidebar, height_cm_sidebar, age_sidebar,
                   sex_sidebar, macro_ratio>>
    /\ InputEvent

\* the sidebar preset selectbox, key 'macro_ratio', no on_change (line 266)
ChangeMacroRatio(p) ==
    /\ p # macro_ratio
    /\ macro_ratio' = p
    /\ UNCHANGED widgets
    /\ InputEvent

\* "Calculate My Plan", on_click=run_calculation (line 275)
ClickCalculate ==
    /\ macro_ratio' = macro_ratio
    /\ run_calculation
    /\ event' = "calculate"
    /\ Rerun(macro_ratio_dashboard)
    /\ UNCHANGED <<widgets, call, ret>>

\* an update_macro_and_recalculate without the copy of line 207
update_macro_and_recalculate_uncopied(p) ==
    /\ macro_ratio' = macro_ratio
    /\ run_calculation

\* update_macro_and_recalculate, lines 203-210, with the selectbox at p
update_macro_and_recalculate(p) ==
    /\ macro_ratio' = p
    /\ run_calculation

\* the dashboard preset selectbox, on_change=update_macro_and_recalculate
ChangeDashboard(p) ==
    /\ calculated
    /\ macro_ratio_dashboard # Unset
    /\ p # macro_ratio_dashboard
    /\ update_macro_and_recalculate(p)
    /\ event' = "dashboard"
    /\ Rerun(p)
    /\ UNCHANGED <<widgets, call, ret>>

Next ==
    \/ \E w \in SessWeights : ChangeWeight(w)
    \/ \E h \in SessHeights : ChangeHeight(h)
    \/ \E a \in SessAges : ChangeAge(a)
    \/ \E s \in SessSexes : ChangeSex(s)
    \/ \E l \in SessLevels : ChangeActivity(l)
    \/ \E p \in SessPresets : ChangeMacroRatio(p)
    \/ ClickCalculate
    \/ \E p \in SessPresets : ChangeDashboard(p)

Spec == Init /\ [][Next]_vars

-----------------------------------------------------------------------------
(* Direct calls of the formulas, with arguments drawn from bounded sets:   *)
(* a call from the idle state records its arguments and its outcome, and   *)
(* the caller then goes back to idle.                                      *)

WeightSpan == 2
HeightSpan == 1
AgeSpan == 1
TdeeSpan == 40
DurationSpan == 2

\* tenths of a kg: non-positive values, the smallest inputs, the weights
\* whose BMI at 170 cm rounds onto a category threshold, and a run of
\* neighbouring values from the default
FnWeights ==
    {-10, 0, 10, 13, 156, 450, 534, 535, 722, 866}
        \cup (DefaultWeight..(DefaultWeight + WeightSpan))

\* tenths of a cm
FnHeights ==
    {-10, 0, 10, 16, 2000} \cup (DefaultHeight..(DefaultHeight + HeightSpan))

FnAges == {-1, 0, 1, 17, 120} \cup (DefaultAge..(DefaultAge + AgeSpan))

FnSexes == {"Male", "Female"}

\* a valid profile: weight > 0, height > 0, age in 1..120
ValidProfile(w, h, a) == w > 0 /\ h > 0 /\ a \in 1..120

FnLevels == DOMAIN activity_multipliers \cup {"Couch Potato"}
FnPresets == DOMAIN MACRO_PRESETS \cup {"Keto (5/25/70)"}

\* the bmr values of the valid profiles above, in eighths of a kcal
FnBmrs ==
    { calculate_bmr(w, h, a, s) :
        w \in {x \in FnWeights : x > 0}, h \in {x \in FnHeights : x > 0},
        a \in {x \in FnAges : x \in 1..120}, s \in FnSexes }

\* tdee in 1/320 kcal: negative, zero, every value within TdeeSpan/320 kcal
\* of the 1200 kcal floor, and the tdee of the valid profiles above
FnTdees ==
    {-2000 * 320, 0}
        \cup ((MinCalories * 320 - TdeeSpan)..(MinCalories * 320 + TdeeSpan))
        \cup { b * activity_multipliers[l] :
                 b \in FnBmrs, l \in DOMAIN activity_multipliers }

FnDurations == {1, 45, 60} \cup (21..(21 + DurationSpan))
                   \cup (30..(30 + DurationSpan))

Idle == call.fn = "none"

Called(fn, args, r) ==
    /\ call' = [fn |-> fn, args |-> args]
    /\ ret' = r
    /\ UNCHANGED <<widgets, session>>

CallBmr(w, h, a, s) ==
    /\ Called("calculate_bmr", <<w, h, a, s>>,
              Return(calculate_bmr(w, h, a, s)))

CallTdee(b, l) ==
    /\ Called("get_tdee", <<b, l>>, get_tdee(b, l))

CallMacros(t, p) ==
    /\ \E r \in get_macros(t, p) : Called("get_macros", <<t, p>>, r)

CallWater(w) ==
    /\ \E r \in calculate_water_intake(w) :
           Called("calculate_water_intake", <<w>>, Return(r))

CallBmi(w, h) ==
    /\ \E r \in calculate_bmi(w, h) :
           Called("calculate_bmi", <<w, h>>, Return(r))

\* a script run with tab 3's widgets at (activity, duration) and the sidebar
\* weight at w
RenderTab3(activity, w, d) ==
    /\ Called("exercise_estimator", <<activity, w, d>>,
              Return(exercise_estimator(activity, w, d)))

Back ==
    /\ ~Idle
    /\ call' = NoCall
    /\ ret' = Return(0)
    /\ UNCHANGED <<widgets, session>>

\* a call is made from the idle state
NextFn ==
    \/ /\ Idle
       /\ \E w \in FnWeights, h \in FnHeights, a \in FnAges, s \in FnSexes :
              CallBmr(w, h, a, s)
    \/ /\ Idle
       /\ \E b \in FnBmrs, l \in FnLevels : CallTdee(b, l)
    \/ /\ Idle
       /\ \E t \in FnTdees, p \in FnPresets : CallMacros(t, p)
    \/ /\ Idle
       /\ \E w \in FnWeights : CallWater(w)
    \/ /\ Idle
       /\ \E w \in FnWeights, h \in FnHeights : CallBmi(w, h)
    \/ /\ Idle
       /\ \E a \in DOMAIN MET_VALUES, w \in {x \in FnWeights : x > 0},
             d \in FnDurations : RenderTab3(a, w, d)
    \/ Back

SpecFn == Init /\ [][NextFn]_vars

-----------------------------------------------------------------------------
(* Properties of the formulas, stated on the recorded call and its outcome *)
(* (specification SpecFn).                                                 *)

\* C1: for every tdee (values below 1200, zero and negative included) and
\* every preset of the table, get_macros returns, and the calories it
\* returns are never below 1200: they are max(tdee, 1200) rounded to one
\* decimal, i.e. a tenth within 0.05 of max(tdee, 1200).
C1_CaloriesNeverBelowFloor ==
    (call.fn = "get_macros" /\ call.args[2] \in DOMAIN MACRO_PRESETS) =>
        /\ Returned(ret)
        /\ LET tdee_ == call.args[1]
               target == IF tdee_ > MinCalories * 320
                         THEN tdee_ ELSE MinCalories * 320
               d == 320 * ret.val.calories - 10 * target
           IN  /\ ret.val.calories >= 10 * MinCalories
               /\ -320 <= 2 * d
               /\ 2 * d <= 320

\* a negative tdee came back as 1200.0 kcal
C1_Witness ==
    /\ call.fn = "get_macros"
    /\ call.args[1] < 0
    /\ Returned(ret)
    /\ ret.val.calories = 10 * MinCalories

C4_UnknownKeyRaises ==
    /\ (call.fn = "get_tdee"
          /\ call.args[2] \notin {LevelOrder[i] : i \in 1..5}) =>
           (Raised(ret) /\ ~Returned(ret))
    /\ (call.fn = "get_macros"
          /\ call.args[2] \notin {PresetOrder[i] : i \in 1..4}) =>
           (Raised(ret) /\ ~Returned(ret))

\* get_tdee was called with an unknown level and raised
C4_Witness ==
    /\ call.fn = "get_tdee"
    /\ call.args[2] = "Couch Potato"
    /\ ret = Raise("KeyError")

\* C7: calculate_bmi returns (0, "N/A") for every height_cm <= 0; for
\* height_cm > 0 it returns the bmi rounded to one decimal (a tenth within
\* 0.05 of weight / (height/100)^2) and the one category of the rounded
\* value: Underweight below 18.5, Healthy Weight in [18.5, 25), Overweight
\* in [25, 30), Obese from 30; (70, 170) gives (24.2, "Healthy Weight").
C7_BmiAndCategory ==
    call.fn = "calculate_bmi" =>
        /\ Returned(ret)
        /\ LET w == call.args[1]
               h == call.args[2]
               bmi == ret.val[1]
               category == ret.val[2]
               d == bmi * h * h - w * 1000000
           IN  /\ h <= 0 => ret.val = <<0, "N/A">>
               /\ h > 0 =>
                    /\ -(h * h) <= 2 * d
                    /\ 2 * d <= h * h
                    /\ category = "Underweight" <=> bmi < 185
                    /\ category = "Healthy Weight" <=> (185 <= bmi /\ bmi < 250)
                    /\ category = "Overweight" <=> (250 <= bmi /\ bmi < 300)
                    /\ category = "Obese" <=> bmi >= 300
               /\ (w = 700 /\ h = 1700) => ret.val = <<242, "Healthy Weight">>

\* 53.4 kg at 170 cm: the quotient 18.477 is below 18.5, the rounded bmi
\* 18.5 is not, and the category is that of the rounded value
C7_Witness ==
    /\ call = [fn |-> "calculate_bmi", args |-> <<534, 1700>>]
    /\ ret = Return(<<185, "Healthy Weight">>)

C5_IncreasingForEveryValidBmr ==
    (call.fn = "get_tdee" /\ Returned(ret) /\ call.args[1] \in FnBmrs) =>
        \A i \in 1..4 :
            call.args[2] = LevelOrder[i] =>
                ret.val < get_tdee(call.args[1], LevelOrder[i + 1]).val

\* C5: for a fixed bmr > 0, get_tdee is strictly increasing across the five
\* levels in multiplier order; a valid profile (weight > 0, height > 0, age
\* in 1..120) can have bmr <= 0, and then get_tdee is the same at every
\* level (bmr = 0) or strictly decreasing (bmr < 0).
C5_IncreasingForPositiveBmr ==
    (call.fn = "get_tdee" /\ Returned(ret) /\ call.args[1] \in FnBmrs) =>
        \A i \in 1..4 :
            call.args[2] = LevelOrder[i] =>
                LET next == get_tdee(call.args[1], LevelOrder[i + 1]).val
                IN  /\ call.args[1] > 0 => ret.val < next
                    /\ call.args[1] = 0 => ret.val = next
                    /\ call.args[1] < 0 => ret.val > next

\* a valid profile's negative bmr, at the lowest level: the next level's
\* tdee is smaller
C5_Witness ==
    /\ call.fn = "get_tdee"
    /\ call.args[1] \in FnBmrs
    /\ call.args[1] < 0
    /\ call.args[2] = LevelOrder[1]
    /\ Returned(ret)
    /\ ret.val > get_tdee(call.args[1], LevelOrder[2]).val

\* C6 as stated: the exercise estimator computes a calories-burned value if
\* and only if the selected activity's MET is non-zero, and the value is
\* floor(met * weight_kg * duration_minutes / 60); 343 for MET 9.8, 70 kg,
\* 30 min.
C6_ExerciseFloorOfExactProduct ==
    call.fn = "exercise_estimator" =>
        LET met == MET_VALUES[call.args[1]]
            w == call.args[2]
            d == call.args[3]
        IN  /\ ("calories_burned" \in DOMAIN ret.val) <=> (met # 0)
            /\ met # 0 =>
                   ret.val.calories_burned = (met * w * d) \div 6000
            /\ (met = 98 /\ w = 700 /\ d = 30) =>
                   ret.val.calories_burned = 343

-----------------------------------------------------------------------------
(* Properties of the session (specification Spec).  A step's event' tells  *)
(* which handler ran: "input" a sidebar edit, "calculate" the button's     *)
(* run_calculation, "dashboard" update_macro_and_recalculate.              *)

\* C3 as stated: when weight, height or age is non-positive the calculation
\* fails with an InvalidInput error propagated to the caller.
C3_InvalidInputRaised ==
    (event \in {"calculate", "dashboard"} /\ InvalidNow) =>
        raised = "InvalidInput"

\* C3: when weight, height or age is non-positive, run_calculation raises
\* nothing: it returns silently with calculated False, and it produces no
\* result (results stays what it was).
C3_InvalidInputSilent ==
    [][ (event' \in {"calculate", "dashboard"} /\ InvalidNow) =>
            /\ raised' = "None"
            /\ calculated' = FALSE
            /\ results' = results ]_vars

\* Calculate was clicked with height 0: nothing raised, nothing calculated
C3_Witness ==
    /\ event = "calculate"
    /\ height_cm_sidebar = 0
    /\ raised = "None"
    /\ ~calculated

\* C9 as stated: in every reachable state where calculated is True the
\* stored results (results.macro_ratio and results.weight_kg included) are
\* those of the current input values.
C9_ResultsOfCurrentInputs ==
    calculated =>
        results \in Bundles(weight_kg_sidebar, height_cm_sidebar, age_sidebar,
                            sex_sidebar, activity_sidebar, macro_ratio)

\* C9: the pipeline is re-run only by the Calculate button and by a change
\* of the dashboard preset selectbox.  An edit of a sidebar input (weight,
\* height, age, sex, activity level, sidebar preset) leaves calculated,
\* results and weight_kg as they were; after a run that leaves calculated
\* True, results are those of the inputs as they are at that run.
C9_ResultsOfLastRun ==
    [][ /\ event' = "input" => UNCHANGED <<calculated, results, weight_kg>>
        /\ (event' \in {"calculate", "dashboard"} /\ calculated') =>
               /\ results' \in Bundles(weight_kg_sidebar', height_cm_sidebar',
                                       age_sidebar', sex_sidebar',
                                       activity_sidebar', macro_ratio')
               /\ weight_kg' = weight_kg_sidebar' ]_vars

\* the weight and the sidebar preset were edited after a run: the dashboard
\* is up, with the results of the earlier inputs
C9_Witness ==
    /\ calculated
    /\ event = "input"
    /\ results.weight_kg # weight_kg_sidebar
    /\ results.macro_ratio # macro_ratio

\* C10: run_calculation validates before computing.  With weight_kg <= 0,
\* height_cm <= 0 or age <= 0 it sets calculated to False and leaves
\* results, weight_kg and macro_ratio unchanged (stored results are kept,
\* not cleared); calculated becomes True only in a run whose three inputs
\* are positive.  (In a dashboard change macro_ratio is written by
\* update_macro_and_recalculate before run_calculation is called.)
C10_ValidatesBeforeComputing ==
    [][ /\ (event' \in {"calculate", "dashboard"} /\ InvalidNow) =>
               /\ calculated' = FALSE
               /\ UNCHANGED <<results, weight_kg>>
               /\ event' = "calculate" => UNCHANGED macro_ratio
        /\ (calculated' /\ ~calculated) =>
               /\ event' \in {"calculate", "dashboard"}
               /\ ~InvalidNow ]_vars

\* Calculate was clicked with height 0 after an earlier run: calculated is
\* False and the earlier results are still stored
C10_Witness ==
    /\ event = "calculate"
    /\ height_cm_sidebar = 0
    /\ ~calculated
    /\ results # NoResults
    /\ results.weight_kg = weight_kg

\* C11: update_macro_and_recalculate copies macro_ratio_dashboard into
\* macro_ratio before it recalculates.  After a change of the dashboard
\* selectbox with positive body inputs, calculated is True, macro_ratio is
\* the selectbox's new value, results.macro_ratio is that preset,
\* results.macros is get_macros(tdee, that preset), and bmr, tdee, water
\* and BMI are those of a run with the same body inputs (whatever its
\* preset).  The new value differs from the selectbox's old one, and the
\* body inputs are not touched.
C11_DashboardCopiesThenRecalculates ==
    [][ event' = "dashboard" =>
            /\ UNCHANGED widgets
            /\ macro_ratio' # macro_ratio_dashboard
            /\ ~InvalidNow =>
                 /\ calculated'
                 /\ macro_ratio_dashboard' = macro_ratio'
                 /\ results'.macro_ratio = macro_ratio'
                 /\ LET bmr == calculate_bmr(weight_kg_sidebar,
                                             height_cm_sidebar, age_sidebar,
                                             sex_sidebar)
                        tdee == get_tdee(bmr, activity_sidebar)
                    IN  /\ results'.bmr = bmr
                        /\ Return(results'.tdee) = tdee
                        /\ Return(results'.macros)
                               \in get_macros(results'.tdee, macro_ratio')
                 /\ \E b \in Bundles(weight_kg_sidebar, height_cm_sidebar,
                                     age_sidebar, sex_sidebar,
                                     activity_sidebar, macro_ratio) :
                        /\ results'.bmr = b.bmr
                        /\ results'.tdee = b.tdee
                        /\ results'.water_liters = b.water_liters
                        /\ results'.bmi = b.bmi
                        /\ results'.bmi_category = b.bmi_category ]_vars

\* the dashboard selectbox went from "Balanced" to "High Protein" with the
\* default body inputs: the stored macros are those of the new preset
C11_Witness ==
    /\ event = "dashboard"
    /\ calculated
    /\ weight_kg_sidebar = DefaultWeight
    /\ macro_ratio = "High Protein (30/40/30)"
    /\ macro_ratio_dashboard = "High Protein (30/40/30)"
    /\ results.macro_ratio = "High Protein (30/40/30)"
    /\ results.macros.protein_cal > results.macros.carbs_cal

\* C12: the session starts with calculated False and empty results, and
\* after any sequence of clicks, input edits and dashboard changes, whenever
\* calculated is True the results hold the full bundle (bmr, tdee, macros,
\* water_liters, bmi, bmi_category, weight_kg, macro_ratio) computed from a
\* positive weight, height and age: results.macros.calories >= 1200,
\* results.bmi_category is never "N/A", and results.weight_kg is the
\* session's weight_kg.
C12_SessionInvariant ==
    /\ event = "load" => (~calculated /\ results = NoResults)
    /\ calculated =>
         /\ DOMAIN results = {"bmr", "tdee", "macros", "water_liters", "bmi",
                              "bmi_category", "weight_kg", "macro_ratio"}
         /\ results.weight_kg > 0
         /\ results.weight_kg = weight_kg
         /\ results.macros.calories >= 10 * MinCalories
         /\ results.bmi > 0
         /\ results.bmi_category # "N/A"
         /\ results.macro_ratio \in DOMAIN MACRO_PRESETS
         /\ \E h \in SessHeights, a \in SessAges, s \in SessSexes,
               l \in SessLevels :
                /\ h > 0
                /\ a > 0
                /\ results \in Bundles(results.weight_kg, h, a, s, l,
                                       results.macro_ratio)

\* the dashboard is up with the bundle of an 85.5 kg run, while the height
\* input has since been set to 0
C12_Witness ==
    /\ calculated
    /\ height_cm_sidebar = 0
    /\ results.weight_kg = 855
    /\ weight_kg = 855
    /\ results.bmi_category = "Overweight"

====
